---- MODULE Spec2Model ----
(***************************************************************************)
(* Hybrid resource manager (HybridResourceManager): allocation of compute *)
(* on three providers under a budget, and the monthly cost optimizer.     *)
(*                                                                         *)
(* Money is counted in cents and time in whole hours, so that the         *)
(* products rate * duration of the source are exact integers.  Monthly    *)
(* totals are cents per month (cents per hour * 24 * 30).                 *)
(***************************************************************************)
EXTENDS Integers, Sequences, FiniteSets, TLC

VARIABLES
    config_file,       \* what config.json held when the manager was built
    config,            \* self.config, the dict returned by _load_config
    allocations,       \* self.allocations, a dict in insertion order
    hourly_rates,      \* self.hourly_rates
    workload_configs,  \* self.workload_configs
    log,               \* the lines this process appended to allocations.log
    clock,             \* number of calls made so far; the reading of time.time()
    result,            \* the last call, its arguments and how it ended
    threads            \* where each thread of a concurrent host is in its call

vars ==
    <<config_file, config, allocations, hourly_rates, workload_configs, log, clock,
      result, threads>>

---------------------------------------------------------------------------
(* Bounds *)

\* number of calls (allocate_resources or optimize_costs) in one run
MaxCalls == 2

\* number of calls in one long run
MaxLongRunCalls == 4

\* number of threads of a concurrent host, each making one call
MaxThreads == 2

---------------------------------------------------------------------------
(* Enumerations *)

AI_TRAINING  == "ai_training"
AI_INFERENCE == "ai_inference"
MEDIA_RENDER == "media_render"
MINING       == "mining"
DEVELOPMENT  == "development"
DATABASE     == "database"
MONITORING   == "monitoring"

WorkloadType ==
    {AI_TRAINING, AI_INFERENCE, MEDIA_RENDER, MINING, DEVELOPMENT, DATABASE, MONITORING}

ALIBABA         == "alibaba"
VASTAI_RESERVED == "vastai_reserved"
VASTAI_ONDEMAND == "vastai_ondemand"

Provider == {ALIBABA, VASTAI_RESERVED, VASTAI_ONDEMAND}

\* Python's None where a Provider is expected
None == "None"

\* Python's None where a ResourceAllocation is expected
NoAllocation == [none |-> TRUE]

---------------------------------------------------------------------------
(* How a call ends: it returns a value or raises an exception *)

Return(v) ==
    [kind |-> "return", value |-> v, exception |-> "", target |-> "", key |-> ""]

\* exception e, raised by the lookup of key in target
Raise(e, target, key) ==
    [kind |-> "raise", value |-> NoAllocation, exception |-> e,
     target |-> target, key |-> key]

---------------------------------------------------------------------------
(* The tables built by __init__ *)

\* a rate table where the on-demand tier offers the RTX 5090 as well
InitialHourlyRatesOnDemand5090 ==
    [p \in Provider |->
        CASE p = ALIBABA ->
               ("ecs.g6.large" :> 12 @@ "ecs.r6.large" :> 18)
          [] p = VASTAI_RESERVED ->
               ("RTX 5090" :> 36 @@ "RTX 4090" :> 28)
          [] p = VASTAI_ONDEMAND ->
               ("RTX 5090" :> 30 @@ "RTX 3090" :> 22 @@ "RTX 4060" :> 15
                @@ "RTX 3060" :> 12)]

\* a rate table without the RTX 3090 of the on-demand tier
InitialHourlyRatesWithout3090 ==
    [p \in Provider |->
        CASE p = ALIBABA ->
               ("ecs.g6.large" :> 12 @@ "ecs.r6.large" :> 18)
          [] p = VASTAI_RESERVED ->
               ("RTX 5090" :> 36 @@ "RTX 4090" :> 28)
          [] p = VASTAI_ONDEMAND ->
               ("RTX 4060" :> 15 @@ "RTX 3060" :> 12)]

\* hourly rates in cents
InitialHourlyRates ==
    [p \in Provider |->
        CASE p = ALIBABA ->
               ("ecs.g6.large" :> 12 @@ "ecs.r6.large" :> 18)
          [] p = VASTAI_RESERVED ->
               ("RTX 5090" :> 36 @@ "RTX 4090" :> 28)
          [] p = VASTAI_ONDEMAND ->
               ("RTX 3090" :> 22 @@ "RTX 4060" :> 15 @@ "RTX 3060" :> 12)]

\* the recommended configuration of each workload type; DEVELOPMENT has none
InitialWorkloadConfigs ==
    (AI_TRAINING :>
        [provider |-> VASTAI_RESERVED, gpu |-> "RTX 5090", min_gpu_memory |-> 24,
         template |-> "au", priority |-> "high"])
    @@ (AI_INFERENCE :>
        [provider |-> VASTAI_RESERVED, gpu |-> "RTX 5090", min_gpu_memory |-> 16,
         template |-> "au", priority |-> "high"])
    @@ (MEDIA_RENDER :>
        [provider |-> VASTAI_RESERVED, gpu |-> "RTX 4090", min_gpu_memory |-> 12,
         template |-> "xurt", priority |-> "medium"])
    @@ (MINING :>
        [provider |-> VASTAI_ONDEMAND, gpu |-> "RTX 3090", min_gpu_memory |-> 24,
         template |-> "mining", priority |-> "low"])
    @@ (DATABASE :>
        [provider |-> ALIBABA, instance_type |-> "ecs.r6.large", priority |-> "high"])
    @@ (MONITORING :>
        [provider |-> ALIBABA, instance_type |-> "ecs.g6.large", priority |-> "medium"])

---------------------------------------------------------------------------
(* Configuration *)

\* budget_limit of the defaults, 1500 dollars, in cents
DefaultBudgetLimit == 150000

\* defaults with a budget_limit of 150 dollars
DefaultConfigLowLimit ==
    [alibaba_api_key |-> "", vastai_api_key |-> "",
     budget_limit |-> 15000, auto_scaling |-> TRUE]

\* _load_config when config.json is missing
DefaultConfig ==
    [alibaba_api_key |-> "", vastai_api_key |-> "",
     budget_limit |-> DefaultBudgetLimit, auto_scaling |-> TRUE]

\* budget limits a config.json may carry, in cents: one month of a single
\* RTX 5090 (36 * 24 * 30), and zero
FileBudgetLimits == {25920, 0}

\* there is no file at config_path
NoFile == [none |-> TRUE]

\* what may be found at config_path: nothing, or a dict (a file need not
\* carry every key)
ConfigFiles ==
    {NoFile}
    \cup {[alibaba_api_key |-> "k", vastai_api_key |-> "k",
           budget_limit |-> b, auto_scaling |-> FALSE] : b \in FileBudgetLimits}
    \cup {[alibaba_api_key |-> "k", vastai_api_key |-> "k"]}

\* _load_config(config_path): the dict the file holds, the defaults on
\* FileNotFoundError
_load_config(file) == IF file = NoFile THEN DefaultConfig ELSE file

---------------------------------------------------------------------------
(* Requests *)

\* duration_hours a caller may ask for
Durations == {1, 20}

\* budget_usd a caller may offer, in cents
Budgets == {12, 500}

\* the resource figures of a request
Profiles ==
    {[gpu_memory_gb |-> 24, vcpu_count |-> 8, ram_gb |-> 32, storage_gb |-> 500],
     [gpu_memory_gb |-> 8,  vcpu_count |-> 2, ram_gb |-> 4,  storage_gb |-> 100]}

ResourceRequest ==
    {[workload_type |-> w, gpu_memory_gb |-> f.gpu_memory_gb,
      vcpu_count |-> f.vcpu_count, ram_gb |-> f.ram_gb,
      storage_gb |-> f.storage_gb, duration_hours |-> d, budget_usd |-> b] :
        w \in WorkloadType, f \in Profiles, d \in Durations, b \in Budgets}

NoRequest == [none |-> TRUE]

\* the requests of a long run: a budget of five dollars, the larger resource
\* figures, and durations on both sides of 18 hours
LongRunDurations == {1, 18, 20}

\* one workload type for each hourly rate of 0.36, 0.28, 0.22 and 0.12
LongRunWorkloads == {AI_TRAINING, MEDIA_RENDER, MINING, MONITORING}

LongRunRequests ==
    {[workload_type |-> w, gpu_memory_gb |-> 24, vcpu_count |-> 8, ram_gb |-> 32,
      storage_gb |-> 500, duration_hours |-> d, budget_usd |-> 500] :
        w \in LongRunWorkloads, d \in LongRunDurations}

---------------------------------------------------------------------------
(* The dict self.allocations: entries in insertion order *)

dict_keys(d) == {d[i].key : i \in 1..Len(d)}

dict_get(d, k) == (CHOOSE i \in 1..Len(d) : d[i].key = k)

dict_value(d, k) == d[dict_get(d, k)].value

dict_values(d) == [i \in 1..Len(d) |-> d[i].value]

\* a store that rebuilds the dict from the new entry alone
dict_set_rebuilt(d, k, v) == <<[key |-> k, value |-> v]>>

\* d[k] = v: a present key keeps its place and takes the new value
dict_set(d, k, v) ==
    IF k \in dict_keys(d)
    THEN [d EXCEPT ![dict_get(d, k)] = [key |-> k, value |-> v]]
    ELSE Append(d, [key |-> k, value |-> v])

---------------------------------------------------------------------------
(* Budget check and downgrade *)

\* hourly_rate * request.duration_hours
total_cost(hourly_rate, request) == hourly_rate * request.duration_hours

\* _check_budget with a strict comparison: a request whose cost equals its
\* budget is turned away
_check_budget_strict(request, provider) ==
    IF provider = ALIBABA
    THEN IF "ecs.g6.large" \in DOMAIN hourly_rates[provider]
         THEN Return(total_cost(hourly_rates[provider]["ecs.g6.large"], request)
                        < request.budget_usd)
         ELSE Raise("KeyError", "hourly_rates", "ecs.g6.large")
    ELSE LET wc == workload_configs[request.workload_type] IN
         IF "gpu" \notin DOMAIN wc
         THEN Raise("KeyError", "config", "gpu")
         ELSE IF wc.gpu \notin DOMAIN hourly_rates[provider]
              THEN Raise("KeyError", "hourly_rates", wc.gpu)
              ELSE Return(total_cost(hourly_rates[provider][wc.gpu], request)
                             < request.budget_usd)

_check_budget(request, provider) ==
    IF provider = ALIBABA
    THEN IF "ecs.g6.large" \in DOMAIN hourly_rates[provider]
         THEN Return(total_cost(hourly_rates[provider]["ecs.g6.large"], request)
                        <= request.budget_usd)
         ELSE Raise("KeyError", "hourly_rates", "ecs.g6.large")
    ELSE LET wc == workload_configs[request.workload_type] IN
         IF "gpu" \notin DOMAIN wc
         THEN Raise("KeyError", "config", "gpu")
         ELSE IF wc.gpu \notin DOMAIN hourly_rates[provider]
              THEN Raise("KeyError", "hourly_rates", wc.gpu)
              ELSE Return(total_cost(hourly_rates[provider][wc.gpu], request)
                             <= request.budget_usd)

\* a downgrade map that sends the reserved tier straight to the
\* general-purpose cloud
downgrade_map_skipping ==
    (VASTAI_RESERVED :> ALIBABA)
    @@ (VASTAI_ONDEMAND :> ALIBABA)
    @@ (ALIBABA :> None)

downgrade_map ==
    (VASTAI_RESERVED :> VASTAI_ONDEMAND)
    @@ (VASTAI_ONDEMAND :> ALIBABA)
    @@ (ALIBABA :> None)

_downgrade_provider(provider) ==
    IF provider \in DOMAIN downgrade_map THEN downgrade_map[provider] ELSE provider

---------------------------------------------------------------------------
(* Instance creation *)

\* str(request): the dataclass repr, the fields in their declared order
str(request) ==
    <<request.workload_type, request.gpu_memory_gb, request.vcpu_count,
      request.ram_gb, request.storage_gb, request.duration_hours,
      request.budget_usd>>

\* a hash that differs from one call to the next
hash_per_call(s) == <<"hash", s, clock>>

\* hash(s) of a string within one process: equal strings hash equal; the
\* 64-bit hashes of the few distinct strings of one run are taken distinct
hash(s) == <<"hash", s>>

\* an instance id that leaves the hash of the request out
instance_id_without_hash(provider, request) ==
    <<provider, request.workload_type>>

\* f"{provider.value}-{request.workload_type.value}-{hash(str(request))}"
instance_id_of(provider, request) ==
    <<provider, request.workload_type, hash(str(request))>>

ResourceAllocation(provider, instance_id, cost_per_hour, estimated_completion, specs) ==
    [provider |-> provider, instance_id |-> instance_id,
     cost_per_hour |-> cost_per_hour,
     estimated_completion |-> estimated_completion, specs |-> specs]

\* _create_instance that sets the reserved flag on the on-demand tier
_create_instance_flag_inverted(provider, request, wc) ==
    IF provider = None
    THEN Raise("AttributeError", "provider", "value")
    ELSE LET instance_id == instance_id_of(provider, request) IN
         IF provider = ALIBABA
         THEN IF "instance_type" \notin DOMAIN wc
              THEN Raise("KeyError", "config", "instance_type")
              ELSE IF wc.instance_type \notin DOMAIN hourly_rates[provider]
                   THEN Raise("KeyError", "hourly_rates", wc.instance_type)
                   ELSE Return(ResourceAllocation(provider, instance_id,
                            hourly_rates[provider][wc.instance_type],
                            request.duration_hours,
                            [type |-> wc.instance_type, vcpu |-> request.vcpu_count,
                             ram |-> request.ram_gb, storage |-> request.storage_gb]))
         ELSE IF "gpu" \notin DOMAIN wc
              THEN Raise("KeyError", "config", "gpu")
              ELSE IF wc.gpu \notin DOMAIN hourly_rates[provider]
                   THEN Raise("KeyError", "hourly_rates", wc.gpu)
                   ELSE IF "template" \notin DOMAIN wc
                        THEN Raise("KeyError", "config", "template")
                        ELSE Return(ResourceAllocation(provider, instance_id,
                                 hourly_rates[provider][wc.gpu],
                                 request.duration_hours,
                                 [gpu |-> wc.gpu, template |-> wc.template,
                                  storage |-> request.storage_gb,
                                  sireg_enabled |-> (provider = VASTAI_ONDEMAND)]))

_create_instance(provider, request, wc) ==
    IF provider = None
    THEN Raise("AttributeError", "provider", "value")
    ELSE LET instance_id == instance_id_of(provider, request) IN
         IF provider = ALIBABA
         THEN IF "instance_type" \notin DOMAIN wc
              THEN Raise("KeyError", "config", "instance_type")
              ELSE IF wc.instance_type \notin DOMAIN hourly_rates[provider]
                   THEN Raise("KeyError", "hourly_rates", wc.instance_type)
                   ELSE Return(ResourceAllocation(provider, instance_id,
                            hourly_rates[provider][wc.instance_type],
                            request.duration_hours,
                            [type |-> wc.instance_type, vcpu |-> request.vcpu_count,
                             ram |-> request.ram_gb, storage |-> request.storage_gb]))
         ELSE IF "gpu" \notin DOMAIN wc
              THEN Raise("KeyError", "config", "gpu")
              ELSE IF wc.gpu \notin DOMAIN hourly_rates[provider]
                   THEN Raise("KeyError", "hourly_rates", wc.gpu)
                   ELSE IF "template" \notin DOMAIN wc
                        THEN Raise("KeyError", "config", "template")
                        ELSE Return(ResourceAllocation(provider, instance_id,
                                 hourly_rates[provider][wc.gpu],
                                 request.duration_hours,
                                 [gpu |-> wc.gpu, template |-> wc.template,
                                  storage |-> request.storage_gb,
                                  sireg_enabled |-> (provider = VASTAI_RESERVED)]))

\* a log line that records the duration where the budget belongs
log_entry_budget_slip(allocation, request) ==
    [timestamp |-> clock,
     allocation |-> [instance_id |-> allocation.instance_id,
                     provider |-> allocation.provider,
                     cost_per_hour |-> allocation.cost_per_hour,
                     specs |-> allocation.specs],
     request |-> [workload_type |-> request.workload_type,
                  duration |-> request.duration_hours,
                  budget |-> request.duration_hours]]

\* the line _log_allocation writes
log_entry(allocation, request) ==
    [timestamp |-> clock,
     allocation |-> [instance_id |-> allocation.instance_id,
                     provider |-> allocation.provider,
                     cost_per_hour |-> allocation.cost_per_hour,
                     specs |-> allocation.specs],
     request |-> [workload_type |-> request.workload_type,
                  duration |-> request.duration_hours,
                  budget |-> request.budget_usd]]

---------------------------------------------------------------------------
(* allocate_resources *)

\* allocation_for that turns away a request asking for less GPU memory than
\* the configuration's min_gpu_memory
allocation_for_min_gpu_memory(request) ==
    IF request.workload_type \notin DOMAIN workload_configs
    THEN Return(NoAllocation)
    ELSE LET wc == workload_configs[request.workload_type]
             fits == _check_budget(request, wc.provider)
         IN  IF "min_gpu_memory" \in DOMAIN wc
                /\ request.gpu_memory_gb < wc.min_gpu_memory
             THEN Return(NoAllocation)
             ELSE IF fits.kind = "raise"
                  THEN fits
                  ELSE _create_instance(
                           IF ~fits.value THEN _downgrade_provider(wc.provider)
                                          ELSE wc.provider,
                           request, wc)

\* allocation_for that falls back on the MONITORING configuration when the
\* workload type has none (get with a default)
allocation_for_with_default(request) ==
    LET wc == IF request.workload_type \in DOMAIN workload_configs
              THEN workload_configs[request.workload_type]
              ELSE workload_configs[MONITORING]
        fits == _check_budget(request, wc.provider)
    IN  IF fits.kind = "raise"
        THEN fits
        ELSE _create_instance(
                 IF ~fits.value THEN _downgrade_provider(wc.provider)
                                ELSE wc.provider,
                 request, wc)

\* allocation_for that indexes self.workload_configs instead of calling get
allocation_for_indexed(request) ==
    IF request.workload_type \notin DOMAIN workload_configs
    THEN Raise("KeyError", "workload_configs", request.workload_type)
    ELSE LET wc == workload_configs[request.workload_type]
             fits == _check_budget(request, wc.provider)
         IN  IF fits.kind = "raise"
             THEN fits
             ELSE _create_instance(
                      IF ~fits.value THEN _downgrade_provider(wc.provider)
                                     ELSE wc.provider,
                      request, wc)

\* allocate_resources up to and including _create_instance: what the call
\* has in hand before it touches self.allocations
allocation_for(request) ==
    IF request.workload_type \notin DOMAIN workload_configs
    THEN Return(NoAllocation)
    ELSE LET wc == workload_configs[request.workload_type]
             fits == _check_budget(request, wc.provider)
         IN  IF fits.kind = "raise"
             THEN fits
             ELSE _create_instance(
                      IF ~fits.value THEN _downgrade_provider(wc.provider)
                                     ELSE wc.provider,
                      request, wc)

Called(op, request, outcome) == [op |-> op, request |-> request, outcome |-> outcome]

\* allocate_resources that takes the configuration out of
\* self.workload_configs (pop instead of get)
allocate_resources_pop(request, log_ok) ==
    /\ clock' = clock + 1
    /\ workload_configs' =
          [w \in DOMAIN workload_configs \ {request.workload_type}
              |-> workload_configs[w]]
    /\ LET allocation == allocation_for(request) IN
       IF allocation.kind = "return" /\ allocation.value # NoAllocation
       THEN /\ allocations' =
                 dict_set(allocations, allocation.value.instance_id, allocation.value)
            /\ IF log_ok
               THEN /\ log' = Append(log, log_entry(allocation.value, request))
                    /\ result' = Called("allocate_resources", request, allocation)
               ELSE /\ log' = log
                    /\ result' = Called("allocate_resources", request,
                                        Raise("OSError", "open", "allocations.log"))
       ELSE /\ UNCHANGED <<allocations, log>>
            /\ result' = Called("allocate_resources", request, allocation)
    /\ UNCHANGED <<threads, config_file, config, hourly_rates>>

\* allocate_resources that writes a log line for the request before it
\* creates the instance
allocate_resources_log_first(request, log_ok) ==
    /\ clock' = clock + 1
    /\ LET allocation == allocation_for(request) IN
       /\ log' = Append(log, [timestamp |-> clock,
                              request |-> [workload_type |-> request.workload_type,
                                           duration |-> request.duration_hours,
                                           budget |-> request.budget_usd]])
       /\ result' = Called("allocate_resources", request, allocation)
       /\ IF allocation.kind = "return" /\ allocation.value # NoAllocation
          THEN allocations' =
                 dict_set(allocations, allocation.value.instance_id, allocation.value)
          ELSE UNCHANGED allocations
    /\ UNCHANGED <<threads, config_file, config, hourly_rates, workload_configs>>

\* log_ok: whether open("allocations.log", "a") and the write succeed
allocate_resources(request, log_ok) ==
    /\ clock' = clock + 1
    /\ LET allocation == allocation_for(request) IN
       IF allocation.kind = "return" /\ allocation.value # NoAllocation
       THEN /\ allocations' =
                 dict_set(allocations, allocation.value.instance_id, allocation.value)
            /\ IF log_ok
               THEN /\ log' = Append(log, log_entry(allocation.value, request))
                    /\ result' = Called("allocate_resources", request, allocation)
               ELSE /\ log' = log
                    /\ result' = Called("allocate_resources", request,
                                        Raise("OSError", "open", "allocations.log"))
       ELSE /\ UNCHANGED <<allocations, log>>
            /\ result' = Called("allocate_resources", request, allocation)
    /\ UNCHANGED <<threads, config_file, config, hourly_rates, workload_configs>>

---------------------------------------------------------------------------
(* allocate_resources called from the threads of a concurrent host: a call
   proceeds statement by statement, and the statements of different threads
   interleave.  A dict store and the append of one line to a file opened in
   mode "a" are each one step. *)

Threads == 1..MaxThreads

\* what the threads ask for: one hour of each workload type of a long run
ConcurrentRequests == {request \in LongRunRequests : request.duration_hours = 1}

NoOutcome == [none |-> TRUE]

\* a thread that has not called yet
IdleFrame ==
    [pc |-> "idle", request |-> NoRequest, allocation |-> Return(NoAllocation),
     outcome |-> NoOutcome]

\* the statements run log first, insert second
program_order_log_first == <<"log", "insert", "return">>

\* the statements of allocate_resources once _create_instance has returned
\* an allocation: the store into self.allocations, _log_allocation, return
program_order == <<"insert", "log", "return">>

\* the statement that follows statement in program_order
statement_after(statement) ==
    LET i == CHOOSE i \in 1..Len(program_order) : program_order[i] = statement IN
    IF i < Len(program_order) THEN program_order[i + 1] ELSE "done"

\* the call enters, reads its configuration, checks the budget and creates
\* the instance; without an allocation it is over
thread_call(t, request) ==
    /\ threads[t].pc = "idle"
    /\ clock' = clock + 1
    /\ LET allocation == allocation_for(request) IN
       IF allocation.kind = "return" /\ allocation.value # NoAllocation
       THEN /\ threads' = [threads EXCEPT ![t] =
                   [pc |-> program_order[1], request |-> request,
                    allocation |-> allocation, outcome |-> NoOutcome]]
            /\ UNCHANGED result
       ELSE /\ threads' = [threads EXCEPT ![t] =
                   [pc |-> "done", request |-> request,
                    allocation |-> allocation, outcome |-> allocation]]
            /\ result' = Called("allocate_resources", request, allocation)
    /\ UNCHANGED <<config_file, config, allocations, hourly_rates, workload_configs,
                   log>>

\* self.allocations[allocation.instance_id] = allocation
thread_insert(t) ==
    /\ threads[t].pc = "insert"
    /\ allocations' = dict_set(allocations,
                               threads[t].allocation.value.instance_id,
                               threads[t].allocation.value)
    /\ threads' = [threads EXCEPT ![t].pc = statement_after("insert")]
    /\ UNCHANGED <<config_file, config, hourly_rates, workload_configs, log, clock,
                   result>>

\* self._log_allocation(allocation, request)
thread_log(t, log_ok) ==
    /\ threads[t].pc = "log"
    /\ IF log_ok
       THEN /\ log' = Append(log, log_entry(threads[t].allocation.value,
                                            threads[t].request))
            /\ threads' = [threads EXCEPT ![t].pc = statement_after("log")]
            /\ UNCHANGED result
       ELSE /\ log' = log
            /\ threads' = [threads EXCEPT
                   ![t].pc = "done",
                   ![t].outcome = Raise("OSError", "open", "allocations.log")]
            /\ result' = Called("allocate_resources", threads[t].request,
                                Raise("OSError", "open", "allocations.log"))
    /\ UNCHANGED <<config_file, config, allocations, hourly_rates, workload_configs,
                   clock>>

\* return allocation
thread_return(t) ==
    /\ threads[t].pc = "return"
    /\ threads' = [threads EXCEPT ![t].pc = statement_after("return"),
                                  ![t].outcome = threads[t].allocation]
    /\ result' = Called("allocate_resources", threads[t].request,
                        threads[t].allocation)
    /\ UNCHANGED <<config_file, config, allocations, hourly_rates, workload_configs,
                   log, clock>>

---------------------------------------------------------------------------
(* optimize_costs *)

\* hours in the month the optimizer projects: 24 * 30
HoursPerDay == 24

DaysPerMonth == 30

\* an on-demand instance used more than this many hours a day should be reserved
ReservedThreshold == 18

\* the default of self.config.get("budget_limit", 1500), in cents
BudgetLimitFallback == 150000

\* a monthly total in proportion to estimated_completion taken as the hours
\* of use a day
RECURSIVE sum_monthly_by_completion(_)
sum_monthly_by_completion(values) ==
    IF values = <<>>
    THEN 0
    ELSE Head(values).cost_per_hour * Head(values).estimated_completion * DaysPerMonth
         + sum_monthly_by_completion(Tail(values))

RECURSIVE sum_monthly(_)
sum_monthly(values) ==
    IF values = <<>>
    THEN 0
    ELSE Head(values).cost_per_hour * HoursPerDay * DaysPerMonth
         + sum_monthly(Tail(values))

\* the conversion advice with an inclusive threshold
RECURSIVE reserved_recommendations_from_18(_)
reserved_recommendations_from_18(items) ==
    IF items = <<>>
    THEN <<>>
    ELSE LET alloc == Head(items).value
             rest == reserved_recommendations_from_18(Tail(items))
         IN  IF alloc.provider = VASTAI_ONDEMAND
                /\ alloc.estimated_completion >= ReservedThreshold
             THEN <<[kind |-> "convert_to_reserved",
                     instance_id |-> Head(items).key,
                     hours |-> alloc.estimated_completion]>> \o rest
             ELSE rest

RECURSIVE reserved_recommendations(_)
reserved_recommendations(items) ==
    IF items = <<>>
    THEN <<>>
    ELSE LET alloc == Head(items).value
             rest == reserved_recommendations(Tail(items))
         IN  IF alloc.provider = VASTAI_ONDEMAND
                /\ alloc.estimated_completion > ReservedThreshold
             THEN <<[kind |-> "convert_to_reserved",
                     instance_id |-> Head(items).key,
                     hours |-> alloc.estimated_completion]>> \o rest
             ELSE rest

\* optimize_costs' result with an inclusive comparison against the limit
optimize_result_inclusive ==
    LET total_monthly_cost == sum_monthly(dict_values(allocations))
        budget_limit == IF "budget_limit" \in DOMAIN config
                        THEN config.budget_limit
                        ELSE BudgetLimitFallback
    IN  [total_monthly_cost |-> total_monthly_cost,
         recommendations |->
            (IF total_monthly_cost >= budget_limit
             THEN <<[kind |-> "exceeds_budget", total |-> total_monthly_cost]>>
             ELSE <<>>)
            \o reserved_recommendations(allocations)]

\* optimize_costs' result with the comparison against the limit turned round
optimize_result_reversed ==
    LET total_monthly_cost == sum_monthly(dict_values(allocations))
        budget_limit == IF "budget_limit" \in DOMAIN config
                        THEN config.budget_limit
                        ELSE BudgetLimitFallback
    IN  [total_monthly_cost |-> total_monthly_cost,
         recommendations |->
            (IF total_monthly_cost < budget_limit
             THEN <<[kind |-> "exceeds_budget", total |-> total_monthly_cost]>>
             ELSE <<>>)
            \o reserved_recommendations(allocations)]

optimize_result ==
    LET total_monthly_cost == sum_monthly(dict_values(allocations))
        budget_limit == IF "budget_limit" \in DOMAIN config
                        THEN config.budget_limit
                        ELSE BudgetLimitFallback
    IN  [total_monthly_cost |-> total_monthly_cost,
         recommendations |->
            (IF total_monthly_cost > budget_limit
             THEN <<[kind |-> "exceeds_budget", total |-> total_monthly_cost]>>
             ELSE <<>>)
            \o reserved_recommendations(allocations)]

\* optimize_costs that indexes self.config["budget_limit"] instead of calling
\* get
optimize_costs_indexed ==
    /\ clock' = clock + 1
    /\ result' = Called("optimize_costs", NoRequest,
                        IF "budget_limit" \in DOMAIN config
                        THEN Return(optimize_result)
                        ELSE Raise("KeyError", "config", "budget_limit"))
    /\ UNCHANGED <<threads, config_file, config, allocations, hourly_rates, workload_configs,
                   log>>

\* optimize_costs that stores the fallback limit in self.config (setdefault
\* instead of get)
optimize_costs_setdefault ==
    /\ clock' = clock + 1
    /\ result' = Called("optimize_costs", NoRequest, Return(optimize_result))
    /\ config' = IF "budget_limit" \in DOMAIN config
                 THEN config
                 ELSE config @@ ("budget_limit" :> BudgetLimitFallback)
    /\ UNCHANGED <<threads, config_file, allocations, hourly_rates, workload_configs, log>>

optimize_costs ==
    /\ clock' = clock + 1
    /\ result' = Called("optimize_costs", NoRequest, Return(optimize_result))
    /\ UNCHANGED <<threads, config_file, config, allocations, hourly_rates, workload_configs,
                   log>>

---------------------------------------------------------------------------
(* The program *)

Init ==
    /\ config_file \in ConfigFiles
    /\ config = _load_config(config_file)
    /\ allocations = <<>>
    /\ hourly_rates = InitialHourlyRates
    /\ workload_configs = InitialWorkloadConfigs
    /\ log = <<>>
    /\ clock = 0
    /\ result = Called("__init__", NoRequest, Return(NoAllocation))
    /\ threads = [t \in Threads |-> IdleFrame]

Next ==
    /\ clock < MaxCalls
    /\ \/ \E request \in ResourceRequest, log_ok \in BOOLEAN :
              allocate_resources(request, log_ok)
       \/ optimize_costs

Spec == Init /\ [][Next]_vars

\* the same program where allocations.log can always be appended to
NextWorkingLog ==
    /\ clock < MaxCalls
    /\ \/ \E request \in ResourceRequest : allocate_resources(request, TRUE)
       \/ optimize_costs

SpecWorkingLog == Init /\ [][NextWorkingLog]_vars

\* a longer run of calls that can each afford five dollars, the log working
NextLongRun ==
    /\ clock < MaxLongRunCalls
    /\ \/ \E request \in LongRunRequests : allocate_resources(request, TRUE)
       \/ optimize_costs

SpecLongRun == Init /\ [][NextLongRun]_vars

\* the calls of the threads of a concurrent host, interleaved
NextConcurrent ==
    \E t \in Threads :
        \/ \E request \in ConcurrentRequests : thread_call(t, request)
        \/ thread_insert(t)
        \/ \E log_ok \in BOOLEAN : thread_log(t, log_ok)
        \/ thread_return(t)

SpecConcurrent == Init /\ [][NextConcurrent]_vars

TypeOK ==
    /\ clock \in Nat
    /\ Len(log) <= clock
    /\ Len(allocations) <= clock

---------------------------------------------------------------------------
(* Vocabulary of the properties *)

\* the last call was allocate_resources
Allocated == result.op = "allocate_resources"

\* the workload type of the request has a policy entry
Registered(request) == request.workload_type \in DOMAIN workload_configs

PreferredProvider(request) == workload_configs[request.workload_type].provider

\* the tier the policy names: its gpu, or its instance_type
PreferredTier(request) ==
    LET wc == workload_configs[request.workload_type] IN
    IF "gpu" \in DOMAIN wc THEN wc.gpu ELSE wc.instance_type

PreferredRate(request) ==
    hourly_rates[PreferredProvider(request)][PreferredTier(request)]

\* the call returned an allocation
ReturnedAllocation(r) ==
    /\ r.op = "allocate_resources"
    /\ r.outcome.kind = "return"
    /\ r.outcome.value # NoAllocation

\* the budget check passes for the provider (a failed lookup is no pass)
FitsBudget(request, provider) ==
    LET fits == _check_budget(request, provider) IN
    fits.kind = "return" /\ fits.value

\* the downgrade chain of a provider, itself first
RECURSIVE DowngradeChain(_)
DowngradeChain(provider) ==
    IF provider = None
    THEN <<>>
    ELSE <<provider>> \o DowngradeChain(_downgrade_provider(provider))

\* the first provider of the chain that fits the budget, None if there is none
FirstFitting(request) ==
    LET chain == DowngradeChain(PreferredProvider(request))
        fitting == {i \in 1..Len(chain) : FitsBudget(request, chain[i])}
    IN  IF fitting = {} THEN None
        ELSE chain[CHOOSE i \in fitting : \A j \in fitting : i <= j]

---------------------------------------------------------------------------
(* C1 *)

\* C1: a request of a registered workload type whose preferred rate times
\* its duration is within its budget gets an allocation on the preferred
\* provider, at the rate of the preferred (provider, tier).
C1_PreferredWithinBudget ==
    (/\ Allocated
     /\ Registered(result.request)
     /\ PreferredRate(result.request) * result.request.duration_hours
            <= result.request.budget_usd)
    => (/\ ReturnedAllocation(result)
        /\ result.outcome.value.provider = PreferredProvider(result.request)
        /\ result.outcome.value.cost_per_hour = PreferredRate(result.request))

\* a request that costs exactly its budget on the preferred provider was
\* served there
C1_Witness ==
    /\ Allocated
    /\ Registered(result.request)
    /\ PreferredRate(result.request) * result.request.duration_hours
           = result.request.budget_usd
    /\ ReturnedAllocation(result)
    /\ result.outcome.value.provider = PreferredProvider(result.request)

---------------------------------------------------------------------------
(* C2 *)

\* C2: when the preferred provider fails the budget check and a later
\* provider of the downgrade chain passes it, the call returns an allocation
\* on the first provider of the chain that fits.
C2_FirstFittingDowngrade ==
    (/\ Allocated
     /\ Registered(result.request)
     /\ ~FitsBudget(result.request, PreferredProvider(result.request))
     /\ FirstFitting(result.request) # None)
    => (/\ ReturnedAllocation(result)
        /\ result.outcome.value.provider = FirstFitting(result.request))

---------------------------------------------------------------------------
(* C3 *)

\* C3: when no provider of the downgrade chain fits the budget, the call
\* ends with BudgetExceededError and with nothing else.
C3_BudgetExceededError ==
    (/\ Allocated
     /\ Registered(result.request)
     /\ FirstFitting(result.request) = None)
    => (/\ result.outcome.kind = "raise"
        /\ result.outcome.exception = "BudgetExceededError")

---------------------------------------------------------------------------
(* C4 *)

\* C4: every allocation returned is affordable: its cost_per_hour times the
\* duration of the request is within the budget of the request.
C4_Affordable ==
    ReturnedAllocation(result)
    => result.outcome.value.cost_per_hour * result.request.duration_hours
           <= result.request.budget_usd

---------------------------------------------------------------------------
(* C5 *)

---------------------------------------------------------------------------
(* C6 *)

\* C6: no call with a registered workload type ends with a failed lookup in
\* the rate table.
C6_NoRateLookupFailure ==
    (Allocated /\ Registered(result.request))
    => ~(/\ result.outcome.kind = "raise"
         /\ result.outcome.exception = "KeyError"
         /\ result.outcome.target = "hourly_rates")

---------------------------------------------------------------------------
(* C7 *)

\* C7: a call that produces no allocation because no provider of the
\* downgrade chain fits the budget leaves self.allocations as it was and
\* appends nothing to the log.
C7_BudgetFailureChangesNothing ==
    [][(/\ clock' # clock
        /\ result'.op = "allocate_resources"
        /\ Registered(result'.request)
        /\ FirstFitting(result'.request) = None
        /\ ~ReturnedAllocation(result'))
       => (allocations' = allocations /\ log' = log)]_vars

\* a call failed on the budget along its whole chain when an allocation and
\* its log line were already there
C7_Witness ==
    /\ Allocated
    /\ Registered(result.request)
    /\ FirstFitting(result.request) = None
    /\ result.outcome.kind = "raise"
    /\ Len(allocations) = 1
    /\ Len(log) = 1

---------------------------------------------------------------------------
(* C8 *)

\* C8: a successful call inserts its allocation under an instance id that
\* was not yet a key of self.allocations.
C8_FreshInstanceId ==
    [][(clock' # clock /\ ReturnedAllocation(result'))
       => result'.outcome.value.instance_id \notin dict_keys(allocations)]_vars

---------------------------------------------------------------------------
(* C9 *)

\* C9: an allocation stored under an instance id stays there with the same
\* value through every later call.
C9_EntriesKept ==
    [][\A k \in dict_keys(allocations) :
          /\ k \in dict_keys(allocations')
          /\ dict_value(allocations', k) = dict_value(allocations, k)]_vars

\* the same request was served twice: two log lines, one entry
C9_Witness ==
    /\ ReturnedAllocation(result)
    /\ Len(log) = 2
    /\ Len(allocations) = 1
    /\ dict_value(allocations, result.outcome.value.instance_id)
           = result.outcome.value

---------------------------------------------------------------------------
(* C10 *)

\* C10: optimize_costs changes neither self.allocations, the rate table,
\* the policy table, the configuration nor the log.
C10_OptimizeReadOnly ==
    [][(clock' # clock /\ result'.op = "optimize_costs")
       => UNCHANGED <<allocations, hourly_rates, workload_configs, config, log>>]_vars

\* optimize_costs ran over a stored allocation with a configuration that
\* has no budget_limit
C10_Witness ==
    /\ result.op = "optimize_costs"
    /\ Len(allocations) = 1
    /\ Len(log) = 1
    /\ "budget_limit" \notin DOMAIN config
    /\ result.outcome.value.total_monthly_cost > 0

---------------------------------------------------------------------------
(* Vocabulary of the optimizer's properties *)

\* the last call was optimize_costs
Optimized == result.op = "optimize_costs"

\* the sum, over the given keys of a dict of allocations, of
\* cost_per_hour * 24 * 30
RECURSIVE MonthlyCostOf(_, _)
MonthlyCostOf(d, keys) ==
    IF keys = {}
    THEN 0
    ELSE LET k == CHOOSE k \in keys : TRUE IN
         dict_value(d, k).cost_per_hour * 24 * 30 + MonthlyCostOf(d, keys \ {k})

\* the hourly costs of the stored allocations
StoredCosts == {allocations[i].value.cost_per_hour : i \in 1..Len(allocations)}

\* the limit optimize_costs compares with: the configured one, 1500 dollars
\* when the configuration has none
ConfiguredLimit ==
    IF "budget_limit" \in DOMAIN config THEN config.budget_limit ELSE 150000

\* where a recommendation list advises to convert the instance to reserved
ConvertEntries(recommendations, instance_id) ==
    {i \in 1..Len(recommendations) :
        /\ recommendations[i].kind = "convert_to_reserved"
        /\ recommendations[i].instance_id = instance_id}

\* where a recommendation list reports the budget as exceeded
OverBudgetEntries(recommendations) ==
    {i \in 1..Len(recommendations) : recommendations[i].kind = "exceeds_budget"}

---------------------------------------------------------------------------
(* C11 *)

\* C11: in every state optimize_costs returns as total_monthly_cost the sum
\* over the stored allocations of cost_per_hour * 24 * 30, whatever their
\* estimated_completion; three allocations at 0.12, 0.28 and 0.36 an hour
\* give 547.20.
C11_TotalMonthlyCost ==
    /\ optimize_result.total_monthly_cost
           = MonthlyCostOf(allocations, dict_keys(allocations))
    /\ Optimized
       => result.outcome.value.total_monthly_cost
              = MonthlyCostOf(allocations, dict_keys(allocations))
    /\ (Optimized /\ Len(allocations) = 3 /\ StoredCosts = {12, 28, 36})
       => result.outcome.value.total_monthly_cost = 54720

\* optimize_costs ran over three allocations at 0.12, 0.28 and 0.36 an hour
\* that do not all last equally long
C11_Witness ==
    /\ Optimized
    /\ Len(allocations) = 3
    /\ StoredCosts = {12, 28, 36}
    /\ \E i, j \in 1..3 :
          allocations[i].value.estimated_completion
              # allocations[j].value.estimated_completion
    /\ result.outcome.value.total_monthly_cost = 54720

---------------------------------------------------------------------------
(* C12 *)

\* C12: the recommendations of optimize_costs hold exactly one advice to
\* convert, naming the instance id, for each stored allocation that is on the
\* on-demand GPU provider with estimated_completion above 18, and none for any
\* other allocation.
C12_ConvertToReserved ==
    Optimized
    => LET recommendations == result.outcome.value.recommendations IN
       /\ \A k \in dict_keys(allocations) :
             Cardinality(ConvertEntries(recommendations, k))
                 = IF /\ dict_value(allocations, k).provider = VASTAI_ONDEMAND
                      /\ dict_value(allocations, k).estimated_completion > 18
                   THEN 1 ELSE 0
       /\ \A i \in 1..Len(recommendations) :
             recommendations[i].kind = "convert_to_reserved"
             => recommendations[i].instance_id \in dict_keys(allocations)

\* optimize_costs ran over an on-demand allocation of 20 hours, one of 18
\* hours and an allocation of 20 hours on another provider
C12_Witness ==
    /\ Optimized
    /\ \E i, j, k \in 1..Len(allocations) :
          /\ allocations[i].value.provider = VASTAI_ONDEMAND
          /\ allocations[i].value.estimated_completion = 20
          /\ allocations[j].value.provider = VASTAI_ONDEMAND
          /\ allocations[j].value.estimated_completion = 18
          /\ allocations[k].value.provider # VASTAI_ONDEMAND
          /\ allocations[k].value.estimated_completion = 20
          /\ Cardinality(ConvertEntries(result.outcome.value.recommendations,
                                        allocations[i].key)) = 1
          /\ ConvertEntries(result.outcome.value.recommendations,
                            allocations[j].key) = {}

---------------------------------------------------------------------------
(* C13 *)

\* C13: optimize_costs reports the budget as exceeded exactly when
\* total_monthly_cost is strictly above the configured limit; a total equal
\* to the limit or below it is not reported.
C13_OverBudget ==
    Optimized
    => LET r == result.outcome.value IN
       /\ Cardinality(OverBudgetEntries(r.recommendations))
              = IF r.total_monthly_cost > ConfiguredLimit THEN 1 ELSE 0
       /\ \A i \in OverBudgetEntries(r.recommendations) :
             r.recommendations[i].total = r.total_monthly_cost

\* optimize_costs ran when the total was exactly the configured limit and
\* reported nothing
C13_Witness ==
    /\ Optimized
    /\ Len(allocations) > 0
    /\ result.outcome.value.total_monthly_cost = ConfiguredLimit
    /\ OverBudgetEntries(result.outcome.value.recommendations) = {}

---------------------------------------------------------------------------
(* C14 *)

\* C14: with no allocation stored and a configured limit other than zero,
\* optimize_costs returns a total of 0 and no recommendation.
C14_EmptyState ==
    (Optimized /\ allocations = <<>> /\ ConfiguredLimit # 0)
    => (/\ result.outcome.value.total_monthly_cost = 0
        /\ result.outcome.value.recommendations = <<>>)

\* optimize_costs ran with nothing stored, after a call that allocated nothing
C14_Witness ==
    /\ Optimized
    /\ allocations = <<>>
    /\ ConfiguredLimit # 0
    /\ clock > 1
    /\ result.outcome.value.recommendations = <<>>

---------------------------------------------------------------------------
(* C15 *)

\* the call built an allocation
BuiltAllocation(request) ==
    LET allocation == allocation_for(request) IN
    allocation.kind = "return" /\ allocation.value # NoAllocation

\* the last call built an allocation and its log line was not written
LogWriteFailed ==
    /\ Allocated
    /\ BuiltAllocation(result.request)
    /\ ~\E i \in 1..Len(log) : log[i].timestamp = clock - 1

\* C15: when the log write of a successful allocation fails, the call still
\* returns the allocation and the allocation stays in self.allocations.
C15_LogFailureNotFatal ==
    LogWriteFailed
    => (/\ ReturnedAllocation(result)
        /\ allocation_for(result.request).value.instance_id
               \in dict_keys(allocations))

---------------------------------------------------------------------------
(* C16 *)

\* C16: with a working log, a call that returns an allocation appends one
\* record after the records already there, carrying the instance id, the
\* provider and the cost of the allocation and the workload type, duration
\* and budget of the request; every other call leaves the log as it was.
C16_LogAppendOnly ==
    [][IF clock' # clock /\ ReturnedAllocation(result')
       THEN /\ Len(log') = Len(log) + 1
            /\ SubSeq(log', 1, Len(log)) = log
            /\ LET record == log'[Len(log')]
                   allocation == result'.outcome.value
                   request == result'.request
               IN  /\ record.allocation.instance_id = allocation.instance_id
                   /\ record.allocation.provider = allocation.provider
                   /\ record.allocation.cost_per_hour = allocation.cost_per_hour
                   /\ record.request.workload_type = request.workload_type
                   /\ record.request.duration = request.duration_hours
                   /\ record.request.budget = request.budget_usd
       ELSE log' = log]_vars

\* two allocations were logged in call order, with two calls that logged
\* nothing between them
C16_Witness ==
    /\ ReturnedAllocation(result)
    /\ clock = 4
    /\ Len(log) = 2
    /\ log[1].timestamp = 0
    /\ log[2].timestamp = 3
    /\ log[2].allocation.instance_id = result.outcome.value.instance_id
    /\ log[1].allocation.instance_id # log[2].allocation.instance_id

---------------------------------------------------------------------------
(* C17 *)

\* C17: optimize_costs never ends in an error: whatever is stored and
\* whatever the configuration, a missing budget_limit included, it returns a
\* total_monthly_cost and a list of recommendations.
C17_OptimizeNeverRaises ==
    Optimized
    => (/\ result.outcome.kind = "return"
        /\ DOMAIN result.outcome.value = {"total_monthly_cost", "recommendations"}
        /\ result.outcome.value.total_monthly_cost \in Nat
        /\ DOMAIN result.outcome.value.recommendations
               = 1..Len(result.outcome.value.recommendations))

\* optimize_costs ran over a stored allocation with a configuration that
\* carries no budget_limit, and returned
C17_Witness ==
    /\ Optimized
    /\ "budget_limit" \notin DOMAIN config
    /\ Len(allocations) > 0
    /\ result.outcome.kind = "return"

---------------------------------------------------------------------------
(* C18 *)

\* C18: the budget check accepts a projected cost, the rate of the
\* (provider, tier) times the duration, that equals the budget, and rejects
\* one that is strictly above the budget.
C18_BoundaryInclusive ==
    (Allocated /\ Registered(result.request))
    => LET request == result.request
           projected_cost == PreferredRate(request) * request.duration_hours
           fits == FitsBudget(request, PreferredProvider(request))
       IN  /\ projected_cost = request.budget_usd => fits
           /\ projected_cost > request.budget_usd => ~fits

---------------------------------------------------------------------------
(* C19 *)

\* C19: the downgrade function is defined on every provider, sends reserved
\* to on-demand, on-demand to general-purpose and general-purpose to none;
\* downgrading again and again from any provider reaches none within three
\* steps and meets no provider twice; a call whose preferred provider does
\* not fit the budget goes on with the provider one step down.
C19_DowngradeChain ==
    /\ \A p \in Provider : _downgrade_provider(p) \in Provider \cup {None}
    /\ _downgrade_provider(VASTAI_RESERVED) = VASTAI_ONDEMAND
    /\ _downgrade_provider(VASTAI_ONDEMAND) = ALIBABA
    /\ _downgrade_provider(ALIBABA) = None
    /\ \A p \in Provider :
          LET chain == DowngradeChain(p) IN
          /\ Len(chain) <= 3
          /\ \A i, j \in 1..Len(chain) : i # j => chain[i] # chain[j]
    /\ (Allocated /\ Registered(result.request)
            /\ ~FitsBudget(result.request, PreferredProvider(result.request)))
       => result.outcome
              = _create_instance(
                    downgrade_map[PreferredProvider(result.request)],
                    result.request,
                    workload_configs[result.request.workload_type])

\* a call downgraded the general-purpose cloud to none and went on with it
C19_Witness ==
    /\ Allocated
    /\ Registered(result.request)
    /\ PreferredProvider(result.request) = ALIBABA
    /\ ~FitsBudget(result.request, ALIBABA)
    /\ result.outcome = _create_instance(_downgrade_provider(ALIBABA),
                                         result.request,
                                         workload_configs[result.request.workload_type])
    /\ result.outcome.exception = "AttributeError"

---------------------------------------------------------------------------
(* C20 *)

\* C20: without a configuration file the manager is built with the defaults
\* (empty credentials, a budget_limit of 1500, auto_scaling on), and
\* optimize_costs then reports totals above 1500 dollars and no others.
C20_MissingConfigDefaults ==
    config_file = NoFile
    => (/\ config = [alibaba_api_key |-> "", vastai_api_key |-> "",
                     budget_limit |-> 150000, auto_scaling |-> TRUE]
        /\ Optimized
           => Cardinality(OverBudgetEntries(result.outcome.value.recommendations))
                  = IF result.outcome.value.total_monthly_cost > 150000
                    THEN 1 ELSE 0)

\* a manager built without a configuration file ran optimize_costs over an
\* allocation of more than 150 dollars a month and reported no excess
C20_Witness ==
    /\ config_file = NoFile
    /\ config.budget_limit = 150000
    /\ Optimized
    /\ result.outcome.value.total_monthly_cost > 15000
    /\ OverBudgetEntries(result.outcome.value.recommendations) = {}

---------------------------------------------------------------------------
(* C21 *)

\* C21: the budget check of an allocate call prices the tier that would be
\* allocated on the provider, the policy's instance_type on the
\* general-purpose cloud and the policy's gpu on a GPU provider: it passes
\* exactly when the rate of that tier times the duration is within the
\* budget.
C21_CheckUsesAllocatedTier ==
    (Allocated /\ Registered(result.request))
    => (FitsBudget(result.request, PreferredProvider(result.request))
        <=> PreferredRate(result.request) * result.request.duration_hours
                <= result.request.budget_usd)

---------------------------------------------------------------------------
(* C22 *)

\* C22: an allocate call for a workload type without a policy entry leaves
\* self.allocations as it was and appends nothing to the log.
C22_UnknownWorkloadChangesNothing ==
    [][(/\ clock' # clock
        /\ result'.op = "allocate_resources"
        /\ ~Registered(result'.request))
       => (allocations' = allocations /\ log' = log)]_vars

\* a call for DEVELOPMENT was made when an allocation and its log line were
\* already there
C22_Witness ==
    /\ Allocated
    /\ ~Registered(result.request)
    /\ Len(allocations) = 1
    /\ Len(log) = 1
    /\ log[1].allocation.instance_id = allocations[1].key

---------------------------------------------------------------------------
(* C23 *)

\* the policy entry names a (provider, tier) pair the rate table has
HasRate(wc) ==
    /\ wc.provider \in DOMAIN hourly_rates
    /\ (IF "gpu" \in DOMAIN wc THEN wc.gpu ELSE wc.instance_type)
           \in DOMAIN hourly_rates[wc.provider]

\* C23: in every reachable state, the preferred (provider, tier) pair of
\* every entry of the policy table has an entry in the rate table.
C23_PreferredPairsHaveRates ==
    \A w \in DOMAIN workload_configs : HasRate(workload_configs[w])

\* after some calls, a MINING request was served at the rate of its
\* preferred pair, the on-demand RTX 3090
C23_Witness ==
    /\ clock > 1
    /\ ReturnedAllocation(result)
    /\ result.request.workload_type = MINING
    /\ result.outcome.value.cost_per_hour
           = hourly_rates[VASTAI_ONDEMAND]["RTX 3090"]

---------------------------------------------------------------------------
(* C24 *)

\* C24: no call changes the rate table or the policy table, so that in every
\* reachable state they are the tables __init__ built.
C24_TablesImmutable ==
    [][/\ hourly_rates' = hourly_rates
       /\ workload_configs' = workload_configs
       /\ hourly_rates' = InitialHourlyRates
       /\ workload_configs' = InitialWorkloadConfigs]_vars

\* optimize_costs ran after an allocation was made, and the tables are the
\* initial ones
C24_Witness ==
    /\ Optimized
    /\ Len(allocations) > 0
    /\ Len(log) > 0
    /\ hourly_rates = InitialHourlyRates
    /\ workload_configs = InitialWorkloadConfigs

---------------------------------------------------------------------------
(* C26 *)

\* C26: every stored allocation on a GPU provider carries in its specs a
\* reserved flag that is true exactly when the provider is the reserved
\* tier; every stored allocation on the general-purpose cloud carries an
\* instance type, vcpu, ram and storage and no gpu, and when a call returns
\* such an allocation these are the policy's instance type and the vcpu, ram
\* and storage of the request.
C26_SpecsPerProviderKind ==
    /\ \A i \in 1..Len(allocations) :
          LET allocation == allocations[i].value IN
          IF allocation.provider = ALIBABA
          THEN /\ DOMAIN allocation.specs = {"type", "vcpu", "ram", "storage"}
               /\ allocation.specs.type \in DOMAIN hourly_rates[ALIBABA]
          ELSE /\ allocation.provider \in {VASTAI_RESERVED, VASTAI_ONDEMAND}
               /\ "sireg_enabled" \in DOMAIN allocation.specs
               /\ allocation.specs.sireg_enabled
                      = (allocation.provider = VASTAI_RESERVED)
    /\ (ReturnedAllocation(result) /\ result.outcome.value.provider = ALIBABA)
       => LET specs == result.outcome.value.specs
              request == result.request
          IN  /\ specs.type = workload_configs[request.workload_type].instance_type
              /\ specs.vcpu = request.vcpu_count
              /\ specs.ram = request.ram_gb
              /\ specs.storage = request.storage_gb

\* allocations on the reserved tier, on the on-demand tier and on the
\* general-purpose cloud are stored together
C26_Witness ==
    /\ Len(allocations) = 3
    /\ {allocations[i].value.provider : i \in 1..3} = Provider
    /\ \E i \in 1..3 : /\ allocations[i].value.provider = VASTAI_RESERVED
                       /\ allocations[i].value.specs.sireg_enabled
    /\ \E i \in 1..3 : /\ allocations[i].value.provider = VASTAI_ONDEMAND
                       /\ ~allocations[i].value.specs.sireg_enabled
    /\ \E i \in 1..3 : /\ allocations[i].value.provider = ALIBABA
                       /\ allocations[i].value.specs.vcpu = 8

---------------------------------------------------------------------------
(* C27 *)

\* the workload type an instance id names
WorkloadOfInstance(instance_id) == instance_id[2]

\* C27: every stored allocation is on the preferred provider of its workload
\* type; a call whose preferred provider fails the budget check takes one
\* downgrade step and ends in an error, so it builds no allocation.
C27_OnlyPreferredProvider ==
    /\ \A i \in 1..Len(allocations) :
          allocations[i].value.provider
              = workload_configs[WorkloadOfInstance(allocations[i].key)].provider
    /\ ReturnedAllocation(result)
       => result.outcome.value.provider = PreferredProvider(result.request)
    /\ (/\ Allocated
        /\ Registered(result.request)
        /\ ~FitsBudget(result.request, PreferredProvider(result.request)))
       => result.outcome.kind = "raise"

\* a call was downgraded from the reserved tier and failed on the rate of
\* the on-demand tier, an earlier allocation on a preferred provider being
\* stored
C27_Witness ==
    /\ Allocated
    /\ Registered(result.request)
    /\ PreferredProvider(result.request) = VASTAI_RESERVED
    /\ ~FitsBudget(result.request, VASTAI_RESERVED)
    /\ result.outcome.exception = "KeyError"
    /\ result.outcome.target = "hourly_rates"
    /\ Len(allocations) = 1
    /\ allocations[1].value.provider
           = workload_configs[WorkloadOfInstance(allocations[1].key)].provider

---------------------------------------------------------------------------
(* C28 *)

\* the request of the call being made was served before: the call before was
\* the same request and returned an allocation, or the instance id of the
\* request is already a key
ServedBefore(request, instance_id) ==
    \/ ReturnedAllocation(result) /\ result.request = request
    \/ instance_id \in dict_keys(allocations)

\* C28: with a working log, a call whose request is equal field by field to
\* one served before returns an allocation with the same instance id,
\* provider, cost and specs as the stored one, leaves the keys of
\* self.allocations as they were, and appends one record to the log.
C28_RepeatedRequest ==
    [][(/\ clock' # clock
        /\ ReturnedAllocation(result')
        /\ ServedBefore(result'.request, result'.outcome.value.instance_id))
       => LET allocation == result'.outcome.value IN
          /\ allocation.instance_id \in dict_keys(allocations)
          /\ LET earlier == dict_value(allocations, allocation.instance_id) IN
             /\ earlier.instance_id = allocation.instance_id
             /\ earlier.provider = allocation.provider
             /\ earlier.cost_per_hour = allocation.cost_per_hour
             /\ earlier.specs = allocation.specs
          /\ dict_keys(allocations') = dict_keys(allocations)
          /\ Len(log') = Len(log) + 1]_vars

\* a request was served a second time: one key, two log records of the same
\* instance id written at different times
C28_Witness ==
    /\ ReturnedAllocation(result)
    /\ Len(allocations) = 1
    /\ Len(log) = 2
    /\ log[1].allocation.instance_id = result.outcome.value.instance_id
    /\ log[2].allocation.instance_id = result.outcome.value.instance_id
    /\ log[1].timestamp < log[2].timestamp

---------------------------------------------------------------------------
(* C29 *)

\* two requests agree on workload type, duration and budget
SameDecisionFields(q1, q2) ==
    /\ q1.workload_type = q2.workload_type
    /\ q1.duration_hours = q2.duration_hours
    /\ q1.budget_usd = q2.budget_usd

\* what a call decided: the provider and the cost of its allocation, None,
\* or the error
Decision(outcome) ==
    IF outcome.kind = "raise"
    THEN <<"raise", outcome.exception, outcome.target, outcome.key>>
    ELSE IF outcome.value = NoAllocation
         THEN <<"none", "", "", "">>
         ELSE <<"allocation", outcome.value.provider,
                outcome.value.cost_per_hour, "">>

\* C29: with a working log, what an allocate call decides (an allocation with
\* its provider and cost, or an error) is what every request with the same
\* workload type, duration and budget gets, whatever its gpu memory, vcpu, ram
\* and storage; min_gpu_memory plays no part.
C29_DecisionIgnoresResources ==
    Allocated
    => \A q \in ResourceRequest :
          SameDecisionFields(q, result.request)
          => Decision(allocation_for(q)) = Decision(result.outcome)

\* a MINING request asking for less GPU memory than the policy's
\* min_gpu_memory was served like the ones asking for more
C29_Witness ==
    /\ ReturnedAllocation(result)
    /\ result.request.workload_type = MINING
    /\ result.request.gpu_memory_gb
           < workload_configs[MINING].min_gpu_memory
    /\ \E q \in ResourceRequest :
          /\ SameDecisionFields(q, result.request)
          /\ q.gpu_memory_gb >= workload_configs[MINING].min_gpu_memory
          /\ q.vcpu_count # result.request.vcpu_count
          /\ Decision(allocation_for(q)) = Decision(result.outcome)

---------------------------------------------------------------------------
(* Vocabulary of the concurrent host *)

\* the thread has an allocation in hand
HoldsAllocation(t) ==
    /\ threads[t].allocation.kind = "return"
    /\ threads[t].allocation.value # NoAllocation

\* the call of the thread is over and returned its allocation
CompletedSuccessfully(t) ==
    /\ threads[t].pc = "done"
    /\ HoldsAllocation(t)
    /\ threads[t].outcome = threads[t].allocation

\* the log has a record of the instance id
Logged(instance_id) ==
    \E i \in 1..Len(log) : log[i].allocation.instance_id = instance_id

---------------------------------------------------------------------------
(* C25 *)

\* C25: in every reachable state, between the statements of a call as well,
\* every instance id that appears in the log is a key of self.allocations.
C25_LoggedAfterInserted ==
    \A i \in 1..Len(log) :
        log[i].allocation.instance_id \in dict_keys(allocations)

\* a thread has stored its allocation and not yet logged it, while the log
\* holds the record of another allocation
C25_Witness ==
    \E t \in Threads :
        /\ threads[t].pc = "log"
        /\ threads[t].allocation.value.instance_id \in dict_keys(allocations)
        /\ ~Logged(threads[t].allocation.value.instance_id)
        /\ Len(log) > 0

---------------------------------------------------------------------------
(* C30 *)

\* C30: when two calls with different instance ids, interleaved in any way,
\* have both returned their allocation, both allocations are stored in
\* self.allocations and both have a record in the log.
C30_NoLostUpdate ==
    \A t1, t2 \in Threads :
        (/\ t1 # t2
         /\ CompletedSuccessfully(t1)
         /\ CompletedSuccessfully(t2)
         /\ threads[t1].allocation.value.instance_id
                # threads[t2].allocation.value.instance_id)
        => \A t \in {t1, t2} :
              LET allocation == threads[t].allocation.value IN
              /\ allocation.instance_id \in dict_keys(allocations)
              /\ dict_value(allocations, allocation.instance_id) = allocation
              /\ Logged(allocation.instance_id)

\* two calls with different instance ids have both returned; the one stored
\* first was logged second, so their statements were interleaved
C30_Witness ==
    \E t1, t2 \in Threads :
        /\ t1 # t2
        /\ CompletedSuccessfully(t1)
        /\ CompletedSuccessfully(t2)
        /\ Len(allocations) = 2
        /\ Len(log) = 2
        /\ allocations[1].key = threads[t1].allocation.value.instance_id
        /\ allocations[2].key = threads[t2].allocation.value.instance_id
        /\ log[1].allocation.instance_id = allocations[2].key
        /\ log[2].allocation.instance_id = allocations[1].key

====
